---- MODULE Spec2Model ----
(***************************************************************************)
(* PlexModule (app/modules/plex/__init__.py): the gateway over the named   *)
(* Plex connections of the registry.  Every handler is a loop over the     *)
(* registry; one action starts a handler, one action runs one iteration    *)
(* of its loop (all backend calls of that iteration included), one action  *)
(* is the return after the loop.  A handler runs to its return before the  *)
(* next one starts.  The backend connection (class Plex) and the registry  *)
(* base class are outside the module: a backend call answers what the      *)
(* environment chooses, or fails.                                          *)
(***************************************************************************)
EXTENDS Integers, Sequences, FiniteSets, TLC

\* ---------------------------------------------------------------- bounds
MaxServers == 2
MaxHits == 2
MaxItemId == 2

\* ------------------------------------------------------------- universes
ServerNames == <<"A", "B", "C", "D">>
Names == {ServerNames[i] : i \in 1..MaxServers}
ConfTypes == {"plex", "emby"}
MediaTypes == {"movie", "tv"}
ItemIds == 1..MaxItemId
Bodies == {"play", "junk"}

\* Optional values: None is Python's None, Some(x) a present value.
None == <<>>
Some(x) == <<x>>
\* the item id a caller passes: none, or the id of one item
ItemIdArgs == {None, Some(1)}

Injective(s) == \A i, j \in 1..Len(s) : i # j => s[i] # s[j]
Range(s) == {s[i] : i \in 1..Len(s)}
\* the sequences without repetition over S of length at most n
InjSeqs(S, n) == {s \in UNION {[1..k -> S] : k \in 0..n} : Injective(s)}

VARIABLES
    configs,    \* self._configs: the configurations, in configuration order
    instances,  \* self._instances: the names holding a connection, in order
    inactive,   \* per instance: server.is_inactive()
    pc,         \* "idle" | "loop" | "done": position of the running handler
    op,         \* the handler that runs or has returned
    args,       \* its arguments
    idx,        \* position of its loop in the sequence it iterates
    calls,      \* the backend calls it has made, in order
    media_statistics,  \* the list media_statistic builds
    result      \* its return value once pc = "done"

vars == <<configs, instances, inactive, pc, op, args, idx, calls,
          media_statistics, result>>
registry == <<configs, instances>>

\* ------------------------------------------------------------ the registry
\* _MediaServerBase.get_instance(name): the connection registered under name
get_instance(name) ==
    IF name \in Range(instances) THEN Some(name) ELSE None

\* _MediaServerBase.get_config(name, type): the configuration of that name
\* and type
get_config(name, type) ==
    IF \E i \in 1..Len(configs) : configs[i].name = name /\ configs[i].type = type
    THEN Some(name) ELSE None

\* the registry as init_service leaves it: configurations with unique names,
\* and a connection for some of them, in the same order
Registries ==
    {r \in [configs : {c \in UNION {[1..k -> [name : Names, type : ConfTypes]]
                                     : k \in 0..MaxServers}
                        : Injective([i \in 1..Len(c) |-> c[i].name])},
            instances : InjSeqs(Names, MaxServers)] :
        \E keep \in SUBSET (1..Len(r.configs)) :
            r.instances = [i \in 1..Cardinality(keep) |->
                r.configs[CHOOSE j \in keep :
                    Cardinality({k \in keep : k < j}) = i - 1].name]}

\* ------------------------------------------------------------ the backend
\* One call on a connection.  An Inactive connection answers nothing; an
\* Active one answers val, or fails (connectivity, timeout): then it answers
\* nothing and becomes Inactive.
Backend(down, failed, val, empty) ==
    [res      |-> IF down \/ failed THEN empty ELSE val,
     failed   |-> ~down /\ failed,
     inactive |-> down \/ failed]

\* an entry of the log of backend calls
Call(srv, fn, b) == [srv |-> srv, fn |-> fn, res |-> b.res, failed |-> b.failed]

\* season maps: season -> the episode numbers of the season, each once
NoSeasons == <<>>
\* an episode recorded in a library
Episode(s, e) == [season |-> s, episode |-> e]
\* what the enumeration of the episodes of a show yields: nothing, one
\* episode, S1E1 S1E2 S2E1, and the same enumerated twice
EpisodeLists ==
    LET once == <<Episode(1, 1), Episode(1, 2), Episode(2, 1)>>
    IN  {<<>>, <<Episode(1, 1)>>, once, once \o once}

\* the season map with one more enumerated episode
AddEpisode(m, ep) ==
    IF ep.season \notin DOMAIN m
    THEN m @@ (ep.season :> <<ep.episode>>)
    ELSE IF ep.episode \in Range(m[ep.season])
    THEN m
    ELSE [m EXCEPT ![ep.season] = Append(@, ep.episode)]

RECURSIVE SeasonEpisodes(_)
\* the season map Plex.get_tv_episodes builds from an enumeration
SeasonEpisodes(episodes) ==
    IF episodes = <<>> THEN NoSeasons
    ELSE AddEpisode(SeasonEpisodes(SubSeq(episodes, 1, Len(episodes) - 1)),
                    episodes[Len(episodes)])

SeasonMaps == {SeasonEpisodes(e) : e \in EpisodeLists}
\* answers of get_tv_episodes: (item_id, season map)
NoShow == <<None, NoSeasons>>
TvAnswers ==
    {NoShow} \cup {<<Some(i), m>> : i \in ItemIds, m \in SeasonMaps \ {NoSeasons}}
\* the log entry of a get_tv_episodes call, with the episodes it enumerated
TvCall(srv, b, episodes) ==
    [srv |-> srv, fn |-> "get_tv_episodes", res |-> b.res, failed |-> b.failed,
     seen |-> episodes]
\* answers of get_movies: the hits, as item ids
MovieAnswers == InjSeqs(ItemIds, MaxHits)

\* ------------------------------------------------------------ media_exists
\* mutant: the answer is built without server=name
ExistMediaInfo_no_server(type, server, itemid, seasons) ==
    [type |-> type, server |-> "", itemid |-> itemid, seasons |-> seasons]

ExistMediaInfo(type, server, itemid, seasons) ==
    [type |-> type, server |-> server, itemid |-> itemid, seasons |-> seasons]

\* the answers the environment gives to one iteration of media_exists: a
\* failed call and a call that is not made have no answer
ExistsEnvs(mediatype, itemid, down) ==
    IF down
    THEN {[f1 |-> FALSE, f2 |-> FALSE, iteminfo |-> None, movies |-> <<>>,
           tv |-> NoShow, episodes |-> <<>>]}
    ELSE IF mediatype = "movie"
    THEN {e \in [f1 : IF itemid = None THEN {FALSE} ELSE BOOLEAN,
                 f2 : BOOLEAN,
                 iteminfo : IF itemid = None THEN {None} ELSE {None, itemid},
                 movies : MovieAnswers,
                 tv : {NoShow},
                 episodes : {<<>>}] :
            /\ e.f1 => (e.iteminfo = None /\ ~e.f2 /\ e.movies = <<>>)
            /\ e.iteminfo # None => (~e.f2 /\ e.movies = <<>>)
            /\ e.f2 => e.movies = <<>>}
    ELSE {e \in [f1 : BOOLEAN, f2 : {FALSE}, iteminfo : {None}, movies : {<<>>},
                 tv : TvAnswers,
                 episodes : EpisodeLists] :
            /\ e.f1 => e.episodes = <<>>
            /\ e.tv[2] = SeasonEpisodes(e.episodes)}

\* mutant: the TV answer is built without seasons=tvs
media_exists_body_no_seasons(name, mediatype, itemid, down, env) ==
    IF mediatype = "movie"
    THEN LET asked == itemid # None
             c1 == Backend(down, env.f1, env.iteminfo, None)
             log1 == IF asked THEN <<Call(name, "get_iteminfo", c1)>> ELSE <<>>
             down2 == IF asked THEN c1.inactive ELSE down
             c2 == Backend(down2, env.f2, env.movies, <<>>)
         IN  IF asked /\ c1.res # None
             THEN [ret |-> TRUE,
                   result |-> Some(ExistMediaInfo("movie", name, Some(c1.res[1]), NoSeasons)),
                   calls |-> log1,
                   inactive |-> c1.inactive]
             ELSE IF c2.res = <<>>
             THEN [ret |-> FALSE,
                   result |-> None,
                   calls |-> log1 \o <<Call(name, "get_movies", c2)>>,
                   inactive |-> c2.inactive]
             ELSE [ret |-> TRUE,
                   result |-> Some(ExistMediaInfo("movie", name, Some(c2.res[1]), NoSeasons)),
                   calls |-> log1 \o <<Call(name, "get_movies", c2)>>,
                   inactive |-> c2.inactive]
    ELSE LET c == Backend(down, env.f1, env.tv, NoShow)
         IN  IF c.res[2] = NoSeasons
             THEN [ret |-> FALSE,
                   result |-> None,
                   calls |-> <<TvCall(name, c, env.episodes)>>,
                   inactive |-> c.inactive]
             ELSE [ret |-> TRUE,
                   result |-> Some(ExistMediaInfo("tv", name, c.res[1], NoSeasons)),
                   calls |-> <<TvCall(name, c, env.episodes)>>,
                   inactive |-> c.inactive]

\* one iteration of the loop of media_exists on the instance `name`:
\* ret = the iteration returns (else it continues with the next instance)
media_exists_body(name, mediatype, itemid, down, env) ==
    IF mediatype = "movie"
    THEN LET asked == itemid # None
             c1 == Backend(down, env.f1, env.iteminfo, None)
             log1 == IF asked THEN <<Call(name, "get_iteminfo", c1)>> ELSE <<>>
             down2 == IF asked THEN c1.inactive ELSE down
             c2 == Backend(down2, env.f2, env.movies, <<>>)
         IN  IF asked /\ c1.res # None
             THEN [ret |-> TRUE,
                   result |-> Some(ExistMediaInfo("movie", name, Some(c1.res[1]), NoSeasons)),
                   calls |-> log1,
                   inactive |-> c1.inactive]
             ELSE IF c2.res = <<>>
             THEN [ret |-> FALSE,
                   result |-> None,
                   calls |-> log1 \o <<Call(name, "get_movies", c2)>>,
                   inactive |-> c2.inactive]
             ELSE [ret |-> TRUE,
                   result |-> Some(ExistMediaInfo("movie", name, Some(c2.res[1]), NoSeasons)),
                   calls |-> log1 \o <<Call(name, "get_movies", c2)>>,
                   inactive |-> c2.inactive]
    ELSE LET c == Backend(down, env.f1, env.tv, NoShow)
         IN  IF c.res[2] = NoSeasons
             THEN [ret |-> FALSE,
                   result |-> None,
                   calls |-> <<TvCall(name, c, env.episodes)>>,
                   inactive |-> c.inactive]
             ELSE [ret |-> TRUE,
                   result |-> Some(ExistMediaInfo("tv", name, c.res[1], c.res[2])),
                   calls |-> <<TvCall(name, c, env.episodes)>>,
                   inactive |-> c.inactive]

NoArgs == [mediatype |-> "", itemid |-> None, source |-> None, body |-> "",
           server |-> None]

\* a handler is called: its loop starts at the first element
Begin(name, a) ==
    /\ pc = "idle"
    /\ pc' = "loop"
    /\ op' = name
    /\ args' = a
    /\ idx' = 1
    /\ calls' = <<>>
    /\ media_statistics' = <<>>
    /\ result' = None
    /\ UNCHANGED <<registry, inactive>>

\* the running handler returns r
ReturnValue(r) ==
    /\ pc' = "done"
    /\ result' = r
    /\ UNCHANGED <<op, args, idx>>

\* the running loop goes on with its next element
Continue ==
    /\ idx' = idx + 1
    /\ UNCHANGED <<pc, op, args, result>>

\* mutant: the loop of media_exists runs over the instances in reverse order
media_exists_iter_reversed ==
    /\ pc = "loop" /\ op = "media_exists"
    /\ idx <= Len(instances)
    /\ LET name == instances[Len(instances) + 1 - idx]
       IN  \E env \in ExistsEnvs(args.mediatype, args.itemid, inactive[name]) :
             LET o == media_exists_body(name, args.mediatype, args.itemid,
                                        inactive[name], env)
             IN  /\ calls' = calls \o o.calls
                 /\ inactive' = [inactive EXCEPT ![name] = o.inactive]
                 /\ IF o.ret THEN ReturnValue(o.result) ELSE Continue
    /\ UNCHANGED <<registry, media_statistics>>

\* mutant: a failed backend call ends media_exists with None
media_exists_iter_abort_on_failure ==
    /\ pc = "loop" /\ op = "media_exists"
    /\ idx <= Len(instances)
    /\ LET name == instances[idx]
       IN  \E env \in ExistsEnvs(args.mediatype, args.itemid, inactive[name]) :
             LET o == media_exists_body(name, args.mediatype, args.itemid,
                                        inactive[name], env)
             IN  /\ calls' = calls \o o.calls
                 /\ inactive' = [inactive EXCEPT ![name] = o.inactive]
                 /\ IF o.ret \/ \E i \in 1..Len(o.calls) : o.calls[i].failed
                    THEN ReturnValue(o.result) ELSE Continue
    /\ UNCHANGED <<registry, media_statistics>>

\* mutant: media_exists never looks the item up by id
media_exists_iter_ignore_itemid ==
    /\ pc = "loop" /\ op = "media_exists"
    /\ idx <= Len(instances)
    /\ LET name == instances[idx]
       IN  \E env \in ExistsEnvs(args.mediatype, None, inactive[name]) :
             LET o == media_exists_body(name, args.mediatype, None,
                                        inactive[name], env)
             IN  /\ calls' = calls \o o.calls
                 /\ inactive' = [inactive EXCEPT ![name] = o.inactive]
                 /\ IF o.ret
                    THEN ReturnValue(o.result) ELSE Continue
    /\ UNCHANGED <<registry, media_statistics>>

\* mutant: a show absent from one instance ends media_exists
media_exists_iter_tv_absent_returns ==
    /\ pc = "loop" /\ op = "media_exists"
    /\ idx <= Len(instances)
    /\ LET name == instances[idx]
       IN  \E env \in ExistsEnvs(args.mediatype, args.itemid, inactive[name]) :
             LET o == media_exists_body(name, args.mediatype, args.itemid,
                                        inactive[name], env)
             IN  /\ calls' = calls \o o.calls
                 /\ inactive' = [inactive EXCEPT ![name] = o.inactive]
                 /\ IF o.ret \/ args.mediatype = "tv"
                    THEN ReturnValue(o.result) ELSE Continue
    /\ UNCHANGED <<registry, media_statistics>>

\* mutant: with an itemid, a title hit does not end media_exists
media_exists_iter_global_id ==
    /\ pc = "loop" /\ op = "media_exists"
    /\ idx <= Len(instances)
    /\ LET name == instances[idx]
       IN  \E env \in ExistsEnvs(args.mediatype, args.itemid, inactive[name]) :
             LET o == media_exists_body(name, args.mediatype, args.itemid,
                                        inactive[name], env)
             IN  /\ calls' = calls \o o.calls
                 /\ inactive' = [inactive EXCEPT ![name] = o.inactive]
                 /\ IF o.ret /\ ~(args.itemid # None /\ o.calls[Len(o.calls)].fn = "get_movies")
                    THEN ReturnValue(o.result) ELSE Continue
    /\ UNCHANGED <<registry, media_statistics>>

Call_media_exists ==
    \E mediatype \in MediaTypes, itemid \in ItemIdArgs :
        Begin("media_exists", [NoArgs EXCEPT !.mediatype = mediatype, !.itemid = itemid])

media_exists_iter ==
    /\ pc = "loop" /\ op = "media_exists"
    /\ idx <= Len(instances)
    /\ LET name == instances[idx]
       IN  \E env \in ExistsEnvs(args.mediatype, args.itemid, inactive[name]) :
             LET o == media_exists_body(name, args.mediatype, args.itemid,
                                        inactive[name], env)
             IN  /\ calls' = calls \o o.calls
                 /\ inactive' = [inactive EXCEPT ![name] = o.inactive]
                 /\ IF o.ret THEN ReturnValue(o.result) ELSE Continue
    /\ UNCHANGED <<registry, media_statistics>>

media_exists_end ==
    /\ pc = "loop" /\ op = "media_exists"
    /\ idx > Len(instances)
    /\ ReturnValue(None)
    /\ UNCHANGED <<registry, inactive, calls, media_statistics>>

\* ------------------------------------------------------------------- test
\* Plex.reconnect() on a connection: it becomes Active when the attempt
\* succeeds and stays Inactive when it fails; nothing is raised
Reconnect(down, ok) ==
    [res |-> None, failed |-> down /\ ~ok, inactive |-> down /\ ~ok]

\* answers of get_librarys: the libraries of the server
LibraryAnswers == {<<>>, <<"Movies">>}

\* the answers the environment gives to one iteration of test
TestEnvs(down) ==
    {e \in [recon : BOOLEAN, f : BOOLEAN, libs : LibraryAnswers] :
        /\ ~down => e.recon
        /\ (down /\ ~e.recon) => (~e.f /\ e.libs = <<>>)}

\* the result of test: (ok, message); a failure message names the server
TestResult(ok, name) == [ok |-> ok, message |-> name]

\* mutant: test checks that the reconnect succeeded, not that libraries
\* are listed
test_body_reconnect_only(name, down, env) ==
    LET r == Reconnect(down, env.recon)
        log1 == IF down THEN <<Call(name, "reconnect", r)>> ELSE <<>>
        down2 == IF down THEN r.inactive ELSE down
        c == Backend(down2, env.f, env.libs, <<>>)
    IN  [ret      |-> c.inactive,
         result   |-> Some(TestResult(FALSE, name)),
         calls    |-> log1 \o <<Call(name, "get_librarys", c)>>,
         inactive |-> c.inactive]

\* mutant: test reconnects every instance, Inactive or not
test_body_always_reconnect(name, down, env) ==
    LET r == Reconnect(down, env.recon)
        log1 == <<Call(name, "reconnect", r)>>
        down2 == IF down THEN r.inactive ELSE down
        c == Backend(down2, env.f, env.libs, <<>>)
    IN  [ret      |-> c.res = <<>>,
         result   |-> Some(TestResult(FALSE, name)),
         calls    |-> log1 \o <<Call(name, "get_librarys", c)>>,
         inactive |-> c.inactive]

\* one iteration of the loop of test on the instance `name`
test_body(name, down, env) ==
    LET r == Reconnect(down, env.recon)
        log1 == IF down THEN <<Call(name, "reconnect", r)>> ELSE <<>>
        down2 == IF down THEN r.inactive ELSE down
        c == Backend(down2, env.f, env.libs, <<>>)
    IN  [ret      |-> c.res = <<>>,
         result   |-> Some(TestResult(FALSE, name)),
         calls    |-> log1 \o <<Call(name, "get_librarys", c)>>,
         inactive |-> c.inactive]

Call_test ==
    /\ Begin("test", NoArgs)
    /\ instances # <<>>

\* mutant: test without the check of an empty registry
test_empty_returns_true ==
    /\ pc = "idle"
    /\ instances = <<>>
    /\ op' = "test"
    /\ args' = NoArgs
    /\ idx' = 0
    /\ calls' = <<>>
    /\ pc' = "done"
    /\ result' = Some(TestResult(TRUE, ""))
    /\ UNCHANGED <<registry, inactive, media_statistics>>

\* test on an empty registry: return None
test_empty ==
    /\ pc = "idle"
    /\ instances = <<>>
    /\ op' = "test"
    /\ args' = NoArgs
    /\ idx' = 0
    /\ calls' = <<>>
    /\ pc' = "done"
    /\ result' = None
    /\ UNCHANGED <<registry, inactive, media_statistics>>

\* mutant: test goes on after an instance that lists nothing and returns
\* at the last instance only
test_iter_no_stop ==
    /\ pc = "loop" /\ op = "test"
    /\ idx <= Len(instances)
    /\ LET name == instances[idx]
       IN  \E env \in TestEnvs(inactive[name]) :
             LET o == test_body(name, inactive[name], env)
             IN  /\ calls' = calls \o o.calls
                 /\ inactive' = [inactive EXCEPT ![name] = o.inactive]
                 /\ IF o.ret /\ idx = Len(instances)
                    THEN ReturnValue(o.result) ELSE Continue
    /\ UNCHANGED <<registry, media_statistics>>

test_iter ==
    /\ pc = "loop" /\ op = "test"
    /\ idx <= Len(instances)
    /\ LET name == instances[idx]
       IN  \E env \in TestEnvs(inactive[name]) :
             LET o == test_body(name, inactive[name], env)
             IN  /\ calls' = calls \o o.calls
                 /\ inactive' = [inactive EXCEPT ![name] = o.inactive]
                 /\ IF o.ret THEN ReturnValue(o.result) ELSE Continue
    /\ UNCHANGED <<registry, media_statistics>>

test_end ==
    /\ pc = "loop" /\ op = "test"
    /\ idx > Len(instances)
    /\ ReturnValue(Some(TestResult(TRUE, "")))
    /\ UNCHANGED <<registry, inactive, calls, media_statistics>>

\* ---------------------------------------------------------- scheduler_job
\* mutant: the condition of the reconnect is inverted
scheduler_job_body_inverted(name, down, ok) ==
    LET r == Reconnect(down, ok)
    IN  [calls    |-> IF ~down THEN <<Call(name, "reconnect", r)>> ELSE <<>>,
         inactive |-> IF ~down THEN r.inactive ELSE down]

\* one iteration of the loop of scheduler_job on the instance `name`
scheduler_job_body(name, down, ok) ==
    LET r == Reconnect(down, ok)
    IN  [calls    |-> IF down THEN <<Call(name, "reconnect", r)>> ELSE <<>>,
         inactive |-> IF down THEN r.inactive ELSE down]

Call_scheduler_job == Begin("scheduler_job", NoArgs)

\* mutant: a reconnect that fails ends the sweep
scheduler_job_iter_stop_on_failure ==
    /\ pc = "loop" /\ op = "scheduler_job"
    /\ idx <= Len(instances)
    /\ LET name == instances[idx]
       IN  \E ok \in IF inactive[name] THEN BOOLEAN ELSE {TRUE} :
             LET o == scheduler_job_body(name, inactive[name], ok)
             IN  /\ calls' = calls \o o.calls
                 /\ inactive' = [inactive EXCEPT ![name] = o.inactive]
                 /\ IF o.inactive THEN ReturnValue(None) ELSE Continue
    /\ UNCHANGED <<registry, media_statistics>>

scheduler_job_iter ==
    /\ pc = "loop" /\ op = "scheduler_job"
    /\ idx <= Len(instances)
    /\ LET name == instances[idx]
       IN  \E ok \in IF inactive[name] THEN BOOLEAN ELSE {TRUE} :
             LET o == scheduler_job_body(name, inactive[name], ok)
             IN  /\ calls' = calls \o o.calls
                 /\ inactive' = [inactive EXCEPT ![name] = o.inactive]
                 /\ Continue
    /\ UNCHANGED <<registry, media_statistics>>

scheduler_job_end ==
    /\ pc = "loop" /\ op = "scheduler_job"
    /\ idx > Len(instances)
    /\ ReturnValue(None)
    /\ UNCHANGED <<registry, inactive, calls, media_statistics>>

\* --------------------------------------------------------- webhook_parser
\* answers of get_webhook_message(body): the canonical event, or nothing
\* when the connection cannot decode the payload
Events == {"media.play", "media.stop"}
WebhookAnswers(body) ==
    IF body = "junk" THEN {None}
    ELSE {None} \cup {Some([channel |-> "plex", event |-> e]) : e \in Events}

\* Plex.get_webhook_message: decoding is local to the connection
Decode(answer) == [res |-> answer, failed |-> FALSE]

\* mutant: the source is decoded with, without the two presence checks
webhook_parser_source_unchecked(source, answer) ==
    [result |-> answer,
     calls  |-> <<Call(source, "get_webhook_message", Decode(answer))>>]

\* webhook_parser with a source: None, or the decode of that instance
webhook_parser_source(source, answer) ==
    IF get_config(source, "plex") = None
    THEN [result |-> None, calls |-> <<>>]
    ELSE IF get_instance(source) = None
    THEN [result |-> None, calls |-> <<>>]
    ELSE [result |-> answer,
          calls  |-> <<Call(source, "get_webhook_message", Decode(answer))>>]

\* mutant: the loop returns the first decode, empty or not
webhook_parser_body_return_any(conf, answer) ==
    IF conf.type # "plex"
    THEN [ret |-> FALSE, result |-> None, calls |-> <<>>]
    ELSE IF get_instance(conf.name) = None
    THEN [ret |-> FALSE, result |-> None, calls |-> <<>>]
    ELSE [ret    |-> TRUE,
          result |-> answer,
          calls  |-> <<Call(conf.name, "get_webhook_message", Decode(answer))>>]

\* mutant: the loop decodes with every connected configuration
webhook_parser_body_any_type(conf, answer) ==
    IF get_instance(conf.name) = None
    THEN [ret |-> FALSE, result |-> None, calls |-> <<>>]
    ELSE [ret    |-> answer # None,
          result |-> answer,
          calls  |-> <<Call(conf.name, "get_webhook_message", Decode(answer))>>]

\* one iteration of the loop of webhook_parser on the configuration conf
webhook_parser_body(conf, answer) ==
    IF conf.type # "plex"
    THEN [ret |-> FALSE, result |-> None, calls |-> <<>>]
    ELSE IF get_instance(conf.name) = None
    THEN [ret |-> FALSE, result |-> None, calls |-> <<>>]
    ELSE [ret    |-> answer # None,
          result |-> answer,
          calls  |-> <<Call(conf.name, "get_webhook_message", Decode(answer))>>]

\* webhook_parser called with args.source: it returns without a loop
Call_webhook_parser_source ==
    /\ pc = "idle"
    /\ \E source \in Names, body \in Bodies :
         \E answer \in IF get_config(source, "plex") # None
                          /\ get_instance(source) # None
                       THEN WebhookAnswers(body) ELSE {None} :
           LET o == webhook_parser_source(source, answer)
           IN  /\ op' = "webhook_parser"
               /\ args' = [NoArgs EXCEPT !.source = Some(source), !.body = body]
               /\ idx' = 0
               /\ calls' = o.calls
               /\ pc' = "done"
               /\ result' = o.result
    /\ UNCHANGED <<registry, inactive, media_statistics>>

Call_webhook_parser ==
    \E body \in Bodies :
        Begin("webhook_parser", [NoArgs EXCEPT !.body = body])

webhook_parser_iter ==
    /\ pc = "loop" /\ op = "webhook_parser"
    /\ idx <= Len(configs)
    /\ LET conf == configs[idx]
       IN  \E answer \in IF conf.type = "plex" /\ get_instance(conf.name) # None
                         THEN WebhookAnswers(args.body) ELSE {None} :
             LET o == webhook_parser_body(conf, answer)
             IN  /\ calls' = calls \o o.calls
                 /\ IF o.ret THEN ReturnValue(o.result) ELSE Continue
    /\ UNCHANGED <<registry, inactive, media_statistics>>

webhook_parser_end ==
    /\ pc = "loop" /\ op = "webhook_parser"
    /\ idx > Len(configs)
    /\ ReturnValue(None)
    /\ UNCHANGED <<registry, inactive, calls, media_statistics>>

\* -------------------------------------------------------- media_statistic
\* answers of get_medias_count: the count record of the server, or nothing
CountAnswers ==
    {None} \cup {Some([movie_count |-> m, tv_count |-> 0]) : m \in 1..MaxItemId}

\* the servers media_statistic iterates
StatisticServers(server) ==
    IF server # None THEN <<server[1]>> ELSE instances

\* one iteration of the loop of media_statistic: the list after it
media_statistic_body(list, media_statistic) ==
    IF list = <<>> THEN list ELSE Append(list, media_statistic)

\* mutant: an unknown server yields an empty list
media_statistic_absent_empty_list ==
    /\ pc = "idle"
    /\ \E server \in Names :
         /\ get_instance(server) = None
         /\ args' = [NoArgs EXCEPT !.server = Some(server)]
    /\ op' = "media_statistic"
    /\ idx' = 0
    /\ calls' = <<>>
    /\ pc' = "done"
    /\ result' = Some(<<>>)
    /\ UNCHANGED <<registry, inactive, media_statistics>>

\* media_statistic called with a server that is not registered: return None
media_statistic_absent ==
    /\ pc = "idle"
    /\ \E server \in Names :
         /\ get_instance(server) = None
         /\ args' = [NoArgs EXCEPT !.server = Some(server)]
    /\ op' = "media_statistic"
    /\ idx' = 0
    /\ calls' = <<>>
    /\ pc' = "done"
    /\ result' = None
    /\ UNCHANGED <<registry, inactive, media_statistics>>

Call_media_statistic ==
    \E server \in {None} \cup {Some(n) : n \in Names} :
        /\ server # None => get_instance(server[1]) # None
        /\ Begin("media_statistic", [NoArgs EXCEPT !.server = server])

media_statistic_iter ==
    /\ pc = "loop" /\ op = "media_statistic"
    /\ idx <= Len(StatisticServers(args.server))
    /\ LET name == StatisticServers(args.server)[idx]
       IN  \E f \in IF inactive[name] THEN {FALSE} ELSE BOOLEAN,
              count \in IF inactive[name] THEN {None} ELSE CountAnswers :
             LET c == Backend(inactive[name], f, count, None)
             IN  /\ calls' = Append(calls, Call(name, "get_medias_count", c))
                 /\ inactive' = [inactive EXCEPT ![name] = c.inactive]
                 /\ media_statistics' = media_statistic_body(media_statistics, c.res)
                 /\ Continue
    /\ UNCHANGED registry

media_statistic_end ==
    /\ pc = "loop" /\ op = "media_statistic"
    /\ idx > Len(StatisticServers(args.server))
    /\ ReturnValue(Some(media_statistics))
    /\ UNCHANGED <<registry, inactive, calls, media_statistics>>

\* ------------------------------------------------------------ mediaserver_*
\* the outcomes the environment can give to a call on the instance n
Fails(n) == IF inactive[n] THEN {FALSE} ELSE BOOLEAN
Answers(n, S, empty) == IF inactive[n] THEN {empty} ELSE S

\* a handler without a loop is called with a and returns r
Answer(name, a, log, health, r) ==
    /\ pc = "idle"
    /\ op' = name
    /\ args' = a
    /\ idx' = 0
    /\ calls' = log
    /\ inactive' = health
    /\ pc' = "done"
    /\ result' = r
    /\ UNCHANGED <<registry, media_statistics>>

\* answers of get_items, get_resume and get_latest: the items, as item ids
ItemAnswers == InjSeqs(ItemIds, 1)

\* the list of MediaServerSeasonInfo of a season map, by season
RECURSIVE SeasonInfos(_)
SeasonInfos(seasoninfo) ==
    IF DOMAIN seasoninfo = {} THEN <<>>
    ELSE LET last == CHOOSE x \in DOMAIN seasoninfo :
                         \A y \in DOMAIN seasoninfo : y <= x
         IN  Append(SeasonInfos([x \in DOMAIN seasoninfo \ {last} |-> seasoninfo[x]]),
                    [season |-> last, episodes |-> seasoninfo[last]])

\* mutant: mediaserver_librarys reconnects an Inactive instance first
mediaserver_librarys_reconnecting ==
    \E server \in Names :
        IF get_instance(server) = None
        THEN Answer("mediaserver_librarys", [NoArgs EXCEPT !.server = Some(server)], <<>>, inactive, None)
        ELSE \E ok \in BOOLEAN, f \in BOOLEAN, val \in LibraryAnswers :
               LET r == Reconnect(inactive[server], ok)
                   c == Backend(r.inactive, f, val, <<>>)
               IN  Answer("mediaserver_librarys", [NoArgs EXCEPT !.server = Some(server)],
                          (IF inactive[server]
                           THEN <<Call(server, "reconnect", r)>> ELSE <<>>)
                              \o <<Call(server, "get_librarys", c)>>,
                          [inactive EXCEPT ![server] = c.inactive],
                          Some(c.res))

mediaserver_librarys ==
    \E server \in Names :
        IF get_instance(server) = None
        THEN Answer("mediaserver_librarys", [NoArgs EXCEPT !.server = Some(server)], <<>>, inactive, None)
        ELSE \E f \in Fails(server), val \in Answers(server, LibraryAnswers, <<>>) :
               LET c == Backend(inactive[server], f, val, <<>>)
               IN  Answer("mediaserver_librarys", [NoArgs EXCEPT !.server = Some(server)],
                          <<Call(server, "get_librarys", c)>>,
                          [inactive EXCEPT ![server] = c.inactive],
                          Some(c.res))

mediaserver_items ==
    \E server \in Names :
        IF get_instance(server) = None
        THEN Answer("mediaserver_items", [NoArgs EXCEPT !.server = Some(server)], <<>>, inactive, None)
        ELSE \E f \in Fails(server), val \in Answers(server, ItemAnswers, <<>>) :
               LET c == Backend(inactive[server], f, val, <<>>)
               IN  Answer("mediaserver_items", [NoArgs EXCEPT !.server = Some(server)],
                          <<Call(server, "get_items", c)>>,
                          [inactive EXCEPT ![server] = c.inactive],
                          Some(c.res))

mediaserver_iteminfo ==
    \E server \in Names, item_id \in {i[1] : i \in ItemIdArgs \ {None}} :
        IF get_instance(server) = None
        THEN Answer("mediaserver_iteminfo", [NoArgs EXCEPT !.server = Some(server), !.itemid = Some(item_id)], <<>>, inactive, None)
        ELSE \E f \in Fails(server), val \in Answers(server, {None, Some(item_id)}, None) :
               LET c == Backend(inactive[server], f, val, None)
               IN  Answer("mediaserver_iteminfo", [NoArgs EXCEPT !.server = Some(server), !.itemid = Some(item_id)],
                          <<Call(server, "get_iteminfo", c)>>,
                          [inactive EXCEPT ![server] = c.inactive],
                          c.res)

mediaserver_tv_episodes ==
    \E server \in Names, item_id \in {i[1] : i \in ItemIdArgs \ {None}} :
        IF get_instance(server) = None
        THEN Answer("mediaserver_tv_episodes", [NoArgs EXCEPT !.server = Some(server), !.itemid = Some(item_id)], <<>>, inactive, None)
        ELSE \E f \in Fails(server), val \in Answers(server, TvAnswers, NoShow) :
               LET c == Backend(inactive[server], f, val, NoShow)
               IN  Answer("mediaserver_tv_episodes", [NoArgs EXCEPT !.server = Some(server), !.itemid = Some(item_id)],
                          <<Call(server, "get_tv_episodes", c)>>,
                          [inactive EXCEPT ![server] = c.inactive],
                          Some(SeasonInfos(c.res[2])))

mediaserver_playing ==
    \E server \in Names :
        IF get_instance(server) = None
        THEN Answer("mediaserver_playing", [NoArgs EXCEPT !.server = Some(server)], <<>>, inactive, Some(<<>>))
        ELSE \E f \in Fails(server), val \in Answers(server, ItemAnswers, <<>>) :
               LET c == Backend(inactive[server], f, val, <<>>)
               IN  Answer("mediaserver_playing", [NoArgs EXCEPT !.server = Some(server)],
                          <<Call(server, "get_resume", c)>>,
                          [inactive EXCEPT ![server] = c.inactive],
                          Some(c.res))

mediaserver_latest ==
    \E server \in Names :
        IF get_instance(server) = None
        THEN Answer("mediaserver_latest", [NoArgs EXCEPT !.server = Some(server)], <<>>, inactive, Some(<<>>))
        ELSE \E f \in Fails(server), val \in Answers(server, ItemAnswers, <<>>) :
               LET c == Backend(inactive[server], f, val, <<>>)
               IN  Answer("mediaserver_latest", [NoArgs EXCEPT !.server = Some(server)],
                          <<Call(server, "get_latest", c)>>,
                          [inactive EXCEPT ![server] = c.inactive],
                          Some(c.res))

\* mutant: mediaserver_play_url without the presence check
mediaserver_play_url_unchecked ==
    \E server \in Names, item_id \in {i[1] : i \in ItemIdArgs \ {None}} :
        \E f \in Fails(server), val \in Answers(server, {None, Some("url")}, None) :
          LET c == Backend(inactive[server], f, val, None)
          IN  Answer("mediaserver_play_url",
                     [NoArgs EXCEPT !.server = Some(server), !.itemid = Some(item_id)],
                     <<Call(server, "get_play_url", c)>>,
                     [inactive EXCEPT ![server] = c.inactive],
                     c.res)

mediaserver_play_url ==
    \E server \in Names, item_id \in {i[1] : i \in ItemIdArgs \ {None}} :
        IF get_instance(server) = None
        THEN Answer("mediaserver_play_url", [NoArgs EXCEPT !.server = Some(server), !.itemid = Some(item_id)], <<>>, inactive, None)
        ELSE \E f \in Fails(server), val \in Answers(server, {None, Some("url")}, None) :
               LET c == Backend(inactive[server], f, val, None)
               IN  Answer("mediaserver_play_url", [NoArgs EXCEPT !.server = Some(server), !.itemid = Some(item_id)],
                          <<Call(server, "get_play_url", c)>>,
                          [inactive EXCEPT ![server] = c.inactive],
                          c.res)

\* the caller takes the return value; the gateway is idle again
Return ==
    /\ pc = "done"
    /\ pc' = "idle"
    /\ op' = ""
    /\ args' = NoArgs
    /\ idx' = 0
    /\ calls' = <<>>
    /\ media_statistics' = <<>>
    /\ result' = None
    /\ UNCHANGED <<registry, inactive>>

Init ==
    /\ \E r \in Registries : configs = r.configs /\ instances = r.instances
    /\ inactive \in [Names -> BOOLEAN]
    /\ \A n \in Names \ Range(instances) : inactive[n] = FALSE
    /\ pc = "idle"
    /\ op = ""
    /\ args = NoArgs
    /\ idx = 0
    /\ calls = <<>>
    /\ media_statistics = <<>>
    /\ result = None

Next ==
    \/ Call_media_exists
    \/ media_exists_iter
    \/ media_exists_end
    \/ Call_test
    \/ test_empty
    \/ test_iter
    \/ test_end
    \/ Call_scheduler_job
    \/ scheduler_job_iter
    \/ scheduler_job_end
    \/ Call_webhook_parser_source
    \/ Call_webhook_parser
    \/ webhook_parser_iter
    \/ webhook_parser_end
    \/ media_statistic_absent
    \/ Call_media_statistic
    \/ media_statistic_iter
    \/ media_statistic_end
    \/ mediaserver_librarys
    \/ mediaserver_items
    \/ mediaserver_iteminfo
    \/ mediaserver_tv_episodes
    \/ mediaserver_playing
    \/ mediaserver_latest
    \/ mediaserver_play_url
    \/ Return

Spec == Init /\ [][Next]_vars

\* a sweep that has started goes on: every reconnect returns within its
\* call timeout and the loop then takes its next instance
FairSpec ==
    /\ Spec
    /\ WF_vars(scheduler_job_iter)
    /\ WF_vars(scheduler_job_end)

\* ------------------------------------------------------- the claims' terms
Done(name) == pc = "done" /\ op = name

\* the configurations webhook_parser may decode with: type plex, connected
Decoding(conf) == conf.type = "plex" /\ conf.name \in Range(instances)
Decoders == SelectSeq(configs, Decoding)

MovieQuery == op = "media_exists" /\ args.mediatype = "movie"

\* C1: a movie query without itemid asks the instances for get_movies in
\* configuration order, one call per instance; every instance before the
\* last one asked has answered no hit; the answer names the instance whose
\* search was not empty with the id of its first hit, and no instance after
\* it is asked; the answer is None only after all have answered no hit.
C1_MovieFallbackOrder ==
    (MovieQuery /\ args.itemid = None) =>
        LET n == Len(calls)
        IN  /\ n <= Len(instances)
            /\ \A i \in 1..n :
                 calls[i].fn = "get_movies" /\ calls[i].srv = instances[i]
            /\ \A i \in 1..(n - 1) : calls[i].res = <<>>
            /\ pc = "loop" => (n = idx - 1 /\ \A i \in 1..n : calls[i].res = <<>>)
            /\ pc = "done" =>
                 IF result = None
                 THEN n = Len(instances) /\ \A i \in 1..n : calls[i].res = <<>>
                 ELSE /\ n >= 1
                      /\ calls[n].res # <<>>
                      /\ result = Some(ExistMediaInfo("movie", instances[n],
                                           Some(calls[n].res[1]), NoSeasons))

\* C1 witness: the last of several instances answers, with several hits,
\* after the first answered no hit
C1_Witness ==
    /\ Done("media_exists") /\ args.mediatype = "movie" /\ args.itemid = None
    /\ Len(instances) = MaxServers
    /\ result # None
    /\ result[1].server = instances[Len(instances)]
    /\ Len(calls) = Len(instances)
    /\ Len(calls[Len(calls)].res) >= 2
    /\ calls[Len(calls)].res[1] # 1

\* C2: an answer of media_exists names an instance of the registry.
C2_ServerRegistered ==
    (Done("media_exists") /\ result # None) =>
        result[1].server \in Range(instances)

\* C2 witness: a TV answer from the second instance of the registry
C2_Witness ==
    /\ Done("media_exists") /\ args.mediatype = "tv"
    /\ result # None
    /\ Len(instances) >= 2
    /\ result[1].server = instances[2]

\* C3: webhook_parser with a source that names no instance returns None
\* and calls get_webhook_message on no instance.
C3_UnknownSourceNoEvent ==
    (Done("webhook_parser") /\ args.source # None
        /\ args.source[1] \notin Range(instances)) =>
            /\ result = None
            /\ calls = <<>>

\* C3 witness: the source is unknown while a connected plex configuration
\* exists and the body is one a connection can decode
C3_Witness ==
    /\ Done("webhook_parser") /\ args.source # None
    /\ args.source[1] \notin Range(instances)
    /\ args.body = "play"
    /\ Decoders # <<>>

\* C4: webhook_parser without a source asks the connected plex
\* configurations in configuration order; each one asked before the last
\* decoded nothing; the result is the decode of the last one asked when it
\* is not empty, and None only after all of them decoded nothing.
C4_WebhookFirstDecode ==
    (op = "webhook_parser" /\ args.source = None) =>
        LET n == Len(calls)
        IN  /\ n <= Len(Decoders)
            /\ \A i \in 1..n :
                 /\ calls[i].fn = "get_webhook_message"
                 /\ calls[i].srv = Decoders[i].name
            /\ \A i \in 1..(n - 1) : calls[i].res = None
            /\ pc = "done" =>
                 IF result = None
                 THEN n = Len(Decoders) /\ \A i \in 1..n : calls[i].res = None
                 ELSE n >= 1 /\ calls[n].res = result

\* C4 witness: the first instance decodes nothing, the second one decodes
C4_Witness ==
    /\ Done("webhook_parser") /\ args.source = None
    /\ Len(calls) >= 2
    /\ calls[1].res = None
    /\ result # None

\* the position of an instance in the registry
Pos(name) == CHOOSE i \in 1..Len(instances) : instances[i] = name

NonEmptyCount(c) == c.res # None
\* the count records the instances answered, in the order of the calls
CollectedCounts ==
    LET got == SelectSeq(calls, NonEmptyCount)
    IN  [i \in 1..Len(got) |-> got[i].res]

\* C5: media_statistic without a server returns the non-empty count
\* records of the instances, in configuration order.
C5_StatisticsCollectsCounts ==
    (Done("media_statistic") /\ args.server = None) =>
        result = Some(CollectedCounts)

\* C6 as claimed: media_statistic with a server that is not registered
\* returns an empty sequence and makes no backend call.
C6_UnknownServerEmptySequence ==
    (Done("media_statistic") /\ args.server # None
        /\ args.server[1] \notin Range(instances)) =>
            /\ result = Some(<<>>)
            /\ calls = <<>>

\* C6 amended: media_statistic with a server that is not registered
\* returns None, the absent value, and makes no backend call.
C6_UnknownServerNone ==
    (Done("media_statistic") /\ args.server # None
        /\ args.server[1] \notin Range(instances)) =>
            /\ result = None
            /\ calls = <<>>

\* C6 witness: the server is unknown while other instances are registered
C6_Witness ==
    /\ Done("media_statistic") /\ args.server # None
    /\ args.server[1] \notin Range(instances)
    /\ instances # <<>>

IsLibraryCall(c) == c.fn = "get_librarys"

\* C7: on a non-empty registry test probes get_librarys on the instances in
\* configuration order; it returns ok = TRUE exactly when every instance
\* has been probed and has listed libraries, and ok = FALSE, with a message
\* naming the instance, right after the first probe that lists nothing; a
\* reconnect is followed by the probe of the same instance, and an instance
\* probed while Inactive has had its reconnect attempt just before.
C7_TestFailsClosed ==
    (Done("test") /\ instances # <<>>) =>
        LET probes == SelectSeq(calls, IsLibraryCall)
            n == Len(probes)
        IN  /\ result # None
            /\ n >= 1 /\ n <= Len(instances)
            /\ \A i \in 1..n : probes[i].srv = instances[i]
            /\ \A i \in 1..(n - 1) : probes[i].res # <<>>
            /\ result[1].ok <=> (n = Len(instances) /\ probes[n].res # <<>>)
            /\ ~result[1].ok =>
                 /\ probes[n].res = <<>>
                 /\ result[1].message = probes[n].srv
                 /\ calls[Len(calls)] = probes[n]
            /\ \A i \in 1..Len(calls) :
                 calls[i].fn = "reconnect" =>
                     /\ i < Len(calls)
                     /\ calls[i + 1].fn = "get_librarys"
                     /\ calls[i + 1].srv = calls[i].srv
            /\ \A i \in 1..Len(calls) :
                 (calls[i].fn = "get_librarys" /\ ~calls[i].failed
                     /\ inactive[calls[i].srv]) =>
                         /\ i > 1
                         /\ calls[i - 1].fn = "reconnect"
                         /\ calls[i - 1].srv = calls[i].srv
                         /\ calls[i - 1].failed

\* C7 witness: the first instance lists libraries after a reconnect, the
\* second one lists nothing, test returns FALSE naming the second
C7_Witness ==
    /\ Done("test")
    /\ Len(instances) >= 2
    /\ result = Some(TestResult(FALSE, instances[2]))
    /\ calls[1].fn = "reconnect"
    /\ ~inactive[instances[2]]

\* C8: when scheduler_job has returned, it has returned nothing, its calls
\* are reconnect calls on instances in configuration order, an instance is
\* Inactive exactly when its reconnect failed, and every instance that is
\* still Inactive has had its reconnect attempt.
C8_SweepReconnectsInactive ==
    Done("scheduler_job") =>
        /\ result = None
        /\ \A i \in 1..Len(calls) :
             /\ calls[i].fn = "reconnect"
             /\ calls[i].srv \in Range(instances)
             /\ calls[i].failed <=> inactive[calls[i].srv]
        /\ \A i, j \in 1..Len(calls) :
             i < j => Pos(calls[i].srv) < Pos(calls[j].srv)
        /\ \A n \in Range(instances) :
             inactive[n] => \E i \in 1..Len(calls) : calls[i].srv = n

\* C8 witness: a sweep in which one reconnect failed and a later one
\* succeeded
C8_Witness ==
    /\ Done("scheduler_job")
    /\ Len(calls) >= 2
    /\ calls[1].failed
    /\ ~calls[2].failed
    /\ inactive[calls[1].srv]

\* C9: a backend call of media_exists that fails answers nothing and leaves
\* its instance Inactive; that instance is not the one the answer names; the
\* loop goes on to the next instance; media_exists returns None only when
\* the last call on every instance answered nothing, and webhook_parser
\* without a source only when every connected plex configuration decoded
\* nothing.
C9_FailureIsNonMatch ==
    /\ op = "media_exists" =>
         \A i \in 1..Len(calls) :
           calls[i].failed =>
             /\ IF calls[i].fn = "get_tv_episodes"
                THEN calls[i].res = NoShow ELSE calls[i].res = <<>>
             /\ inactive[calls[i].srv]
             /\ result # None => result[1].server # calls[i].srv
             /\ (pc = "done" /\ Pos(calls[i].srv) < Len(instances)) =>
                  \E j \in (i + 1)..Len(calls) :
                      calls[j].srv = instances[Pos(calls[i].srv) + 1]
    /\ (Done("media_exists") /\ result = None) =>
         \A n \in Range(instances) :
           \E i \in 1..Len(calls) :
             /\ calls[i].srv = n
             /\ \A j \in (i + 1)..Len(calls) : calls[j].srv # n
             /\ IF calls[i].fn = "get_tv_episodes"
                THEN calls[i].res = NoShow ELSE calls[i].res = <<>>
    /\ (Done("webhook_parser") /\ args.source = None /\ result = None) =>
         \A k \in 1..Len(Decoders) :
           \E i \in 1..Len(calls) :
             calls[i].srv = Decoders[k].name /\ calls[i].res = None

\* C9 witness: the call on the first instance failed and the second
\* instance answered
C9_Witness ==
    /\ Done("media_exists")
    /\ Len(calls) >= 2
    /\ calls[1].failed
    /\ result # None
    /\ result[1].server = instances[2]

\* C10: with no instance in the registry no handler makes a backend call;
\* test returns None and every other handler None or an empty list.
C10_EmptyRegistry ==
    instances = <<>> =>
        /\ calls = <<>>
        /\ pc = "done" =>
             IF op = "test" THEN result = None
             ELSE result = None \/ result = Some(<<>>)

\* C10 witness: test has returned on a registry without instances
C10_Witness ==
    /\ Done("test")
    /\ instances = <<>>

TvQuery == op = "media_exists" /\ args.mediatype = "tv"

\* C11: the seasons of a TV answer are those of the episodes the answering
\* instance enumerated, and each season lists each of its enumerated
\* episode numbers exactly once, also when the enumeration ran twice:
\* S1E1 S1E2 S2E1 yield season 1 -> 1, 2 and season 2 -> 1.
C11_SeasonsNoDuplicates ==
    (TvQuery /\ pc = "done" /\ result # None) =>
        LET seen == calls[Len(calls)].seen
            m == result[1].seasons
        IN  /\ DOMAIN m = {seen[i].season : i \in 1..Len(seen)}
            /\ \A s \in DOMAIN m :
                 /\ Injective(m[s])
                 /\ Range(m[s]) =
                      {seen[i].episode : i \in {j \in 1..Len(seen) : seen[j].season = s}}
            /\ Range(seen) = {Episode(1, 1), Episode(1, 2), Episode(2, 1)} =>
                 m = (1 :> <<1, 2>>) @@ (2 :> <<1>>)

\* C11 witness: the answering instance enumerated S1E1 S1E2 S2E1 twice
C11_Witness ==
    /\ TvQuery /\ pc = "done" /\ result # None
    /\ Len(calls[Len(calls)].seen) = 6
    /\ DOMAIN result[1].seasons = {1, 2}

\* test or scheduler_job is running its loop
Probing == pc = "loop" /\ op \in {"test", "scheduler_job"}
\* the step adds a call fn on the instance n to the log
NewCall(n, fn) ==
    \E i \in (Len(calls) + 1)..Len(calls') :
        calls'[i].fn = fn /\ calls'[i].srv = n

\* C12 as claimed: a step of test or scheduler_job issues no reconnect on
\* an instance that is Active and leaves that instance Active.
C12_ActiveUnchanged ==
    [][Probing =>
         \A n \in Range(instances) :
           ~inactive[n] => (~NewCall(n, "reconnect") /\ ~inactive'[n])]_vars

\* C12 amended: a step of test or scheduler_job issues no reconnect on an
\* instance that is Active; scheduler_job leaves it Active, and test leaves
\* it Active unless its get_librarys call on that instance fails.
C12_NoReconnectOnActive ==
    [][Probing =>
         \A n \in Range(instances) :
           ~inactive[n] =>
             /\ ~NewCall(n, "reconnect")
             /\ inactive'[n] =>
                  /\ op = "test"
                  /\ \E i \in (Len(calls) + 1)..Len(calls') :
                       /\ calls'[i].fn = "get_librarys"
                       /\ calls'[i].srv = n
                       /\ calls'[i].failed]_vars

\* C12 witness: test has probed a full registry of Active instances, with
\* no reconnect, and all are still Active
C12_Witness ==
    /\ Done("test")
    /\ Len(instances) = MaxServers
    /\ result = Some(TestResult(TRUE, ""))
    /\ Len(calls) = Len(instances)
    /\ \A n \in Range(instances) : ~inactive[n]

\* the handlers addressed to one instance
CatalogOps ==
    {"mediaserver_librarys", "mediaserver_items", "mediaserver_iteminfo",
     "mediaserver_tv_episodes", "mediaserver_playing", "mediaserver_latest",
     "mediaserver_play_url"}

\* C13: a mediaserver_* handler called with a server that is not registered
\* makes no backend call and returns None, or the empty list for
\* mediaserver_playing and mediaserver_latest.
C13_AbsentInstanceNoCall ==
    (pc = "done" /\ op \in CatalogOps
        /\ args.server[1] \notin Range(instances)) =>
            /\ calls = <<>>
            /\ result = IF op \in {"mediaserver_playing", "mediaserver_latest"}
                        THEN Some(<<>>) ELSE None

\* C13 witness: mediaserver_play_url has returned for an unknown server
\* while the registry holds instances
C13_Witness ==
    /\ Done("mediaserver_play_url")
    /\ args.server[1] \notin Range(instances)
    /\ instances # <<>>

\* C14: a movie query with an itemid asks each visited instance for
\* get_iteminfo first; an item found by id ends the query with that
\* instance's name and the found item's id, get_movies not being called on
\* that instance; get_movies is called on an instance only right after its
\* get_iteminfo found nothing.
C14_IdLookupFirst ==
    (MovieQuery /\ args.itemid # None) =>
        \A i \in 1..Len(calls) :
          /\ calls[i].fn \in {"get_iteminfo", "get_movies"}
          /\ calls[i].fn = "get_iteminfo" =>
               /\ i > 1 => calls[i - 1].srv # calls[i].srv
               /\ IF calls[i].res # None
                  THEN /\ i = Len(calls)
                       /\ pc = "done"
                       /\ result = Some(ExistMediaInfo("movie", calls[i].srv,
                                          Some(calls[i].res[1]), NoSeasons))
                  ELSE /\ i < Len(calls)
                       /\ calls[i + 1].fn = "get_movies"
                       /\ calls[i + 1].srv = calls[i].srv
          /\ calls[i].fn = "get_movies" =>
               /\ i > 1
               /\ calls[i - 1].fn = "get_iteminfo"
               /\ calls[i - 1].srv = calls[i].srv
               /\ calls[i - 1].res = None

\* C14 witness: the first instance had neither the id nor a title hit, the
\* second found the item by id
C14_Witness ==
    /\ Done("media_exists") /\ MovieQuery /\ args.itemid # None
    /\ Len(instances) = 2
    /\ Len(calls) = 3
    /\ calls[3].fn = "get_iteminfo" /\ calls[3].res # None
    /\ ~calls[1].failed /\ ~calls[2].failed

\* C15: a TV query asks the instances for get_tv_episodes in configuration
\* order, one call per instance; every instance before the last one asked
\* reported the show absent; the answer is the season map and the item id
\* of the last instance asked, which reported the show present, and no
\* instance after it is asked; the answer is None only after all reported
\* the show absent.
C15_TvFirstPresent ==
    TvQuery =>
        LET n == Len(calls)
        IN  /\ n <= Len(instances)
            /\ \A i \in 1..n :
                 calls[i].fn = "get_tv_episodes" /\ calls[i].srv = instances[i]
            /\ \A i \in 1..(n - 1) : calls[i].res[2] = NoSeasons
            /\ pc = "loop" =>
                 (n = idx - 1 /\ \A i \in 1..n : calls[i].res[2] = NoSeasons)
            /\ pc = "done" =>
                 IF result = None
                 THEN n = Len(instances) /\ \A i \in 1..n : calls[i].res[2] = NoSeasons
                 ELSE /\ n >= 1
                      /\ calls[n].res[2] # NoSeasons
                      /\ result = Some(ExistMediaInfo("tv", instances[n],
                                         calls[n].res[1], calls[n].res[2]))

\* C15 witness: the first instance answered that the show is absent, the
\* second reported two seasons
C15_Witness ==
    /\ Done("media_exists") /\ TvQuery
    /\ Len(calls) = 2
    /\ ~calls[1].failed
    /\ result # None
    /\ result[1].server = instances[2]
    /\ DOMAIN result[1].seasons = {1, 2}

\* C16: every instance that is Inactive when a sweep starts has received a
\* reconnect of its own when that sweep returns, and the sweep does return,
\* whether the reconnects on the instances before it succeed or fail.
C16_SweepReachesAll ==
    \A n \in Names :
        (pc = "loop" /\ op = "scheduler_job" /\ idx = 1
            /\ n \in Range(instances) /\ inactive[n])
        ~> (Done("scheduler_job")
            /\ \E i \in 1..Len(calls) :
                 calls[i].fn = "reconnect" /\ calls[i].srv = n)

\* C16 witness: a sweep has returned after the reconnect of the first
\* instance failed and the second instance got its own attempt, which failed
C16_Witness ==
    /\ Done("scheduler_job")
    /\ Len(instances) >= 2
    /\ Len(calls) >= 2
    /\ calls[1].srv = instances[1] /\ calls[1].failed
    /\ calls[2].srv = instances[2] /\ calls[2].failed

\* C17: webhook_parser calls get_webhook_message only on instances whose
\* configuration has type plex: the loop passes over the configurations of
\* another type, and with a source whose configuration is of another type
\* it returns None without a call.
C17_OnlyPlexTypeDecodes ==
    op = "webhook_parser" =>
        /\ \A i \in 1..Len(calls) :
             /\ calls[i].fn = "get_webhook_message"
             /\ get_config(calls[i].srv, "plex") # None
        /\ (pc = "loop" /\ args.source = None) =>
             \A j \in 1..(idx - 1) :
               configs[j].type # "plex" =>
                 \A i \in 1..Len(calls) : calls[i].srv # configs[j].name
        /\ (pc = "done" /\ args.source # None
              /\ get_config(args.source[1], "plex") = None) =>
                 (result = None /\ calls = <<>>)

\* C17 witness: the first configuration is connected but not of type plex;
\* the loop passed over it and a later plex configuration decoded the event
C17_Witness ==
    /\ Done("webhook_parser") /\ args.source = None
    /\ Len(configs) >= 2
    /\ configs[1].type # "plex"
    /\ configs[1].name \in Range(instances)
    /\ calls # <<>>
    /\ result # None

\* C18: a step logs a reconnect only within test or scheduler_job, and an
\* instance goes from Inactive to Active only in a step that logs a
\* reconnect on it that did not fail; media_exists, webhook_parser,
\* media_statistic and the mediaserver_* handlers log no reconnect and turn
\* no instance Active.
C18_OnlyReconnectActivates ==
    [][\A n \in Names :
         /\ NewCall(n, "reconnect") => op' \in {"test", "scheduler_job"}
         /\ (inactive[n] /\ ~inactive'[n]) =>
              \E i \in (Len(calls) + 1)..Len(calls') :
                  /\ calls'[i].fn = "reconnect"
                  /\ calls'[i].srv = n
                  /\ ~calls'[i].failed]_vars

\* C18 witness: mediaserver_librarys has returned for a registered instance
\* that was Inactive, after a call on it, and the instance is Inactive still
C18_Witness ==
    /\ Done("mediaserver_librarys")
    /\ args.server[1] \in Range(instances)
    /\ inactive[args.server[1]]
    /\ Len(calls) = 1
    /\ ~calls[1].failed

\* C19: every step of the loop of test leaves the instances after the one
\* it visits as they are, with no call on them; the step in which test
\* returns ok = FALSE names the instance it visits, whose get_librarys is
\* the last call and listed nothing, while every instance before it listed
\* libraries and no instance after it has been called.
C19_TestStopsAtFirstFailure ==
    [][(pc = "loop" /\ op = "test") =>
         /\ \A j \in (idx + 1)..Len(instances) :
              /\ inactive'[instances[j]] = inactive[instances[j]]
              /\ \A i \in (Len(calls) + 1)..Len(calls') :
                   calls'[i].srv # instances[j]
         /\ (pc' = "done" /\ ~result'[1].ok) =>
              /\ result'[1].message = instances[idx]
              /\ calls'[Len(calls')].fn = "get_librarys"
              /\ calls'[Len(calls')].srv = instances[idx]
              /\ calls'[Len(calls')].res = <<>>
              /\ \A i \in 1..Len(calls') :
                   /\ Pos(calls'[i].srv) <= idx
                   /\ (calls'[i].fn = "get_librarys" /\ Pos(calls'[i].srv) < idx)
                        => calls'[i].res # <<>>]_vars

\* C19 witness: test has returned ok = FALSE naming the first instance
\* while the second instance is Inactive
C19_Witness ==
    /\ Done("test")
    /\ result # None /\ ~result[1].ok
    /\ Len(instances) >= 2
    /\ result[1].message = instances[1]
    /\ inactive[instances[2]]
    /\ \A i \in 1..Len(calls) : calls[i].srv = instances[1]

\* C20: in a movie query with an itemid, an instance whose get_iteminfo
\* found nothing and whose get_movies has a hit ends the query: the answer
\* names that instance with the id of its first hit, and no instance after
\* it in the registry is called, whatever it holds.
C20_IdPriorityPerInstance ==
    (MovieQuery /\ args.itemid # None) =>
        \A i \in 1..Len(calls) :
          (calls[i].fn = "get_movies" /\ calls[i].res # <<>>) =>
              /\ pc = "done"
              /\ result # None
              /\ result[1].server = calls[i].srv
              /\ result[1].itemid = Some(calls[i].res[1])
              /\ \A j \in 1..Len(calls) :
                   Pos(calls[j].srv) <= Pos(calls[i].srv)

\* C20 witness: the first of two instances missed the id and had a title
\* hit; the query returned it without a call on the second
C20_Witness ==
    /\ Done("media_exists") /\ MovieQuery /\ args.itemid # None
    /\ Len(instances) >= 2
    /\ Len(calls) = 2
    /\ calls[1].fn = "get_iteminfo" /\ calls[1].res = None /\ ~calls[1].failed
    /\ calls[2].fn = "get_movies" /\ calls[2].res # <<>>
    /\ result # None
    /\ result[1].server = instances[1]

====
